---- MODULE Spec2Model ----
(***************************************************************************)
(* VA EFB proxy (src/server.js): an Express process that keeps an OAuth    *)
(* client secret server-side, caches one client-credentials bearer token   *)
(* in memory and forwards calls to the upstream flights API.               *)
(*                                                                         *)
(* server.js holds two variants of the service one after the other:        *)
(*   variant 1, lines 1-266   (getClientToken, /api/login, debug info)      *)
(*   variant 2, lines 268-361 (getToken, a JSON flights-raw endpoint)       *)
(* The model picks the variant at start-up and follows each request        *)
(* handler from one await to the next; handlers of different requests      *)
(* interleave at those awaits, as they do on the Node event loop.          *)
(***************************************************************************)
EXTENDS Integers, Sequences, FiniteSets, Bags, TLC

\* ---------------------------------------------------------------- bounds
NumReq == 2          \* requests the process handles at the same time
MaxTicks == 1        \* clock advances in one run

\* ------------------------------------------------------ program constants
DefaultExpiresIn == 3600     \* data.expires_in || 3600
SafetyMarginSec == 60        \* ... - 60
MsPerSec == 1000             \* ... * 1000

\* the clock starts one second after the epoch and advances by seconds
Epoch == MsPerSec
TickMs == MsPerSec

VARIABLES
  variant,                \* which of the two variants of server.js runs
  CLIENT_ID,              \* process.env.VAMSYS_CLIENT_ID ("" when unset)
  CLIENT_SECRET,          \* process.env.VAMSYS_CLIENT_SECRET ("" when unset)
  ENABLE_PASSWORD_GRANT,  \* process.env.ENABLE_PASSWORD_GRANT === "1"
  now,                    \* Date.now()
  cachedToken,            \* let cachedToken
  tokenExpiresAt,         \* let tokenExpiresAt (a boxed number, <<>> for NaN)
  inflight,               \* the requests being handled, a bag: for each one the
                          \* handler's position and locals (run), the same in the
                          \* twin run (twin), and the last upstream answer (wire)
  lastTokenResponse,      \* history: the token response whose processing set the cache
                          \* last, with the `now` of the call that asked for it
  twinCache               \* the cache of the twin run: the same program, fed the
                          \* same inputs, with another client secret

vars == <<variant, CLIENT_ID, CLIENT_SECRET, ENABLE_PASSWORD_GRANT, now,
          cachedToken, tokenExpiresAt, inflight, lastTokenResponse, twinCache>>

\* ------------------------------------------------------- JavaScript values
NaN == <<>>
Num(n) == <<n>>
\* a < b on numbers, false when b is NaN
Lt(a, b) == b # NaN /\ a < b[1]
\* truthiness of the values a token variable can hold
Truthy(s) == s \notin {"", "null", "undefined"}
Max(a, b) == IF a >= b THEN a ELSE b

StatusText(n) ==
  CASE n = 200 -> "200" [] n = 401 -> "401" [] n = 404 -> "404"
    [] n = 500 -> "500" [] OTHER -> "0"

\* r.ok of a fetch response
Ok(r) == r.status >= 200 /\ r.status <= 299

\* JSON texts the upstream API answers with, and what JSON.parse and
\* JSON.stringify make of them: "[ ]" and "[]" parse to the same empty array,
\* which is written back as "[]"; "oops" is no JSON.
JSONparses(txt) == txt \in {"[]", "[ ]"}
JSONparse(txt) == IF txt \in {"[]", "[ ]"} THEN <<"array">> ELSE <<"invalid">>
JSONstringify(v) == IF v = <<"array">> THEN "[]" ELSE "null"

\* ------------------------------------------------------------ environment
Secrets == {"", "s3cretA"}
TwinSecret == "s3cretB"
ClientIds == {"", "efb-client"}

NoData == [access_token |-> "undefined", expires_in |-> <<>>]
TokenData ==
  {[access_token |-> "tokA", expires_in |-> <<>>],
   [access_token |-> "tokA", expires_in |-> <<0>>],
   [access_token |-> "tokA", expires_in |-> <<61>>],
   [access_token |-> "tokB", expires_in |-> <<60>>],
   [access_token |-> "tokB", expires_in |-> <<61>>],
   NoData}

\* answers of the token endpoint: a 2xx JSON body, a 2xx body that is no
\* JSON and a non-2xx answer
TokenResponses ==
  {[status |-> 200, parses |-> TRUE, data |-> d, text |-> "{token}"] :
      d \in TokenData}
    \cup {[status |-> 200, parses |-> FALSE, data |-> NoData, text |-> "<html>"],
          [status |-> 401, parses |-> TRUE, data |-> NoData, text |-> "{invalid_client}"]}

\* answers of the upstream API
ApiResponses ==
  {[status |-> 200, text |-> "[ ]"],
   [status |-> 404, text |-> "oops"],
   [status |-> 500, text |-> "[]"]}

NoTokenResponse == [status |-> 0, parses |-> FALSE, data |-> NoData, text |-> ""]
NoApiResponse == [status |-> 0, text |-> ""]
NoWire == [token |-> NoTokenResponse, api |-> NoApiResponse]
NoSource == [set |-> FALSE, t0 |-> 0, data |-> NoData]

\* the token request succeeded: 2xx and a body that downloads and parses
TokenSuccess(r) == Ok(r) /\ r.parses

ForwardEndpoints == {"flights", "flights-raw"}

\* a request as Express hands it to its handler; `stale` is history: the
\* token getter, still running, found an expired token in the cache
NewReq ==
  [pc |-> "start", ep |-> "", username |-> "", password |-> "",
   now |-> 0, token |-> "", lookups |-> 0, hit |-> FALSE, stale |-> FALSE,
   gotToken |-> FALSE,
   tokenReqs |-> <<>>, apiReqs |-> <<>>, responses |-> <<>>]

\* ------------------------------------------------------------ the program
\* Every step of a handler is a function of the configuration, the cache
\* pair and the request's own record to a new cache pair and record, so that
\* the run and its twin apply the same code.
Cache(tok, exp) == [cachedToken |-> tok, tokenExpiresAt |-> exp]
Config(v, id, secret, pw) ==
  [variant |-> v, CLIENT_ID |-> id, CLIENT_SECRET |-> secret, ENABLE_PASSWORD_GRANT |-> pw]
Out(c, rq) == [cache |-> c, rq |-> rq]

API_BASE(cfg) == IF cfg.variant = 1 THEN "https://vamsys.io/api/v3" ELSE "https://vamsys.io/api"
TOKEN_URL == "https://vamsys.io/oauth/token"

\* assertEnv: TRUE when it returns, FALSE when it throws
assertEnv(value) == value # ""

b64(s) == <<"b64(">> \o s \o <<")">>

Error(name, message) == [name |-> name, message |-> message]

\* res.status(status).send(body) / res.status(status).json(body)
respond(rq, status, body) ==
  [rq EXCEPT !.responses = Append(@, [status |-> status, body |-> body]), !.pc = "done",
             !.now = 0, !.stale = FALSE]

\* the catch block answering 502 Bad Gateway where the handlers answer 500
handlerCatch502(cfg, rq, e) ==
  CASE rq.ep = "login" -> respond(rq, 401, <<"error">> \o e.message)
    [] OTHER -> respond(rq, 502, <<"error">> \o e.message)

\* the catch block of the handler that serves rq
handlerCatch(cfg, rq, e) ==
  CASE rq.ep = "login" -> respond(rq, 401, <<"error">> \o e.message)
    [] rq.ep = "flights-raw" /\ cfg.variant = 2 ->
         respond(rq, 500, <<"error", e.name, ": ">> \o e.message)
    [] OTHER -> respond(rq, 500, <<"error">> \o e.message)

\* const token = await getClientToken(); const r = await fetch(`${API_BASE}/flights`, ...)
\* (the token getter has returned: its local `now` is gone)
fetchFlights(cfg, rq, token) ==
  [rq EXCEPT !.token = token, !.gotToken = TRUE, !.now = 0, !.stale = FALSE,
             !.apiReqs = Append(@, <<"GET", API_BASE(cfg), "/flights", "Authorization: Bearer", token>>),
             !.pc = "awaitApiFetch"]

\* POST to TOKEN_URL of the client-credentials grant, first variant
clientTokenRequest(cfg) ==
  <<"POST", TOKEN_URL, "Authorization: Basic">> \o b64(<<cfg.CLIENT_ID, ":", cfg.CLIENT_SECRET>>)
    \o <<"grant_type=client_credentials">>

\* POST to TOKEN_URL of the client-credentials grant, second variant
tokenRequest(cfg) ==
  <<"POST", TOKEN_URL, "grant_type=client_credentials",
    "client_id=", cfg.CLIENT_ID, "client_secret=", cfg.CLIENT_SECRET>>

\* tokenExpiresAt = now + Math.max(0, (data.expires_in || 3600) - 60) * 1000
clientTokenExpiresAt(t, data) ==
  LET ein == IF data.expires_in = <<>> \/ data.expires_in = <<0>>
               THEN DefaultExpiresIn ELSE data.expires_in[1]
  IN  Num(t + Max(0, ein - SafetyMarginSec) * MsPerSec)

\* tokenExpiresAt = now + (data.expires_in - 60) * 1000
tokenExpiresAtOf(t, data) ==
  IF data.expires_in = <<>> THEN NaN
  ELSE Num(t + (data.expires_in[1] - SafetyMarginSec) * MsPerSec)

\* getClientToken without its cache test: every call asks the token endpoint
getClientTokenAlwaysFetch(cfg, c, rq0, t) ==
  LET rq == [rq0 EXCEPT !.now = t, !.lookups = @ + 1,
                        !.stale = Truthy(c.cachedToken) /\ ~Lt(t, c.tokenExpiresAt)] IN
  IF ~assertEnv(cfg.CLIENT_ID)
    THEN Out(c, handlerCatch(cfg, rq, Error("Error", <<"Missing env var: ", "VAMSYS_CLIENT_ID">>)))
  ELSE IF ~assertEnv(cfg.CLIENT_SECRET)
    THEN Out(c, handlerCatch(cfg, rq, Error("Error", <<"Missing env var: ", "VAMSYS_CLIENT_SECRET">>)))
  ELSE Out(c, [rq EXCEPT !.tokenReqs = Append(@, clientTokenRequest(cfg)),
                         !.pc = "awaitTokenFetch"])

\* getClientToken testing only `cachedToken`, not the expiry
getClientTokenIgnoreExpiry(cfg, c, rq0, t) ==
  LET rq == [rq0 EXCEPT !.now = t, !.lookups = @ + 1,
                        !.stale = Truthy(c.cachedToken) /\ ~Lt(t, c.tokenExpiresAt)] IN
  IF Truthy(c.cachedToken)
    THEN Out(c, fetchFlights(cfg, [rq EXCEPT !.hit = TRUE], c.cachedToken))
  ELSE IF ~assertEnv(cfg.CLIENT_ID)
    THEN Out(c, handlerCatch(cfg, rq, Error("Error", <<"Missing env var: ", "VAMSYS_CLIENT_ID">>)))
  ELSE IF ~assertEnv(cfg.CLIENT_SECRET)
    THEN Out(c, handlerCatch(cfg, rq, Error("Error", <<"Missing env var: ", "VAMSYS_CLIENT_SECRET">>)))
  ELSE Out(c, [rq EXCEPT !.tokenReqs = Append(@, clientTokenRequest(cfg)),
                         !.pc = "awaitTokenFetch"])

\* getClientToken up to its first await (variant 1), called by the handler of
\* request rq at time t; a cache hit returns into the handler, which goes on
\* to its upstream fetch
getClientToken(cfg, c, rq0, t) ==
  LET rq == [rq0 EXCEPT !.now = t, !.lookups = @ + 1,
                        !.stale = Truthy(c.cachedToken) /\ ~Lt(t, c.tokenExpiresAt)] IN
  IF Truthy(c.cachedToken) /\ Lt(t, c.tokenExpiresAt)
    THEN Out(c, fetchFlights(cfg, [rq EXCEPT !.hit = TRUE], c.cachedToken))
  ELSE IF ~assertEnv(cfg.CLIENT_ID)
    THEN Out(c, handlerCatch(cfg, rq, Error("Error", <<"Missing env var: ", "VAMSYS_CLIENT_ID">>)))
  ELSE IF ~assertEnv(cfg.CLIENT_SECRET)
    THEN Out(c, handlerCatch(cfg, rq, Error("Error", <<"Missing env var: ", "VAMSYS_CLIENT_SECRET">>)))
  ELSE Out(c, [rq EXCEPT !.tokenReqs = Append(@, clientTokenRequest(cfg)),
                         !.pc = "awaitTokenFetch"])

\* getToken up to its first await (variant 2)
getToken(cfg, c, rq0, t) ==
  LET rq == [rq0 EXCEPT !.now = t, !.lookups = @ + 1,
                        !.stale = Truthy(c.cachedToken) /\ ~Lt(t, c.tokenExpiresAt)] IN
  IF Truthy(c.cachedToken) /\ Lt(t, c.tokenExpiresAt)
    THEN Out(c, fetchFlights(cfg, [rq EXCEPT !.hit = TRUE], c.cachedToken))
  ELSE Out(c, [rq EXCEPT !.tokenReqs = Append(@, tokenRequest(cfg)), !.pc = "awaitTokenFetch"])

\* getClientToken storing the new token and leaving tokenExpiresAt as it was
getClientTokenResumeKeepExpiry(cfg, c, rq, r) ==
  IF ~Ok(r)
    THEN Out(c, handlerCatch(cfg, rq,
            Error("Error", <<"Token request failed (", StatusText(r.status), "): ", r.text>>)))
  ELSE IF ~r.parses
    THEN Out(c, handlerCatch(cfg, rq, Error("SyntaxError", <<"Unexpected token in JSON">>)))
  ELSE Out(Cache(r.data.access_token, c.tokenExpiresAt),
           fetchFlights(cfg, rq, r.data.access_token))

\* getClientToken from `const txt = await r.text()` on, r the token
\* endpoint's answer
getClientTokenResume(cfg, c, rq, r) ==
  IF ~Ok(r)
    THEN Out(c, handlerCatch(cfg, rq,
            Error("Error", <<"Token request failed (", StatusText(r.status), "): ", r.text>>)))
  ELSE IF ~r.parses
    THEN Out(c, handlerCatch(cfg, rq, Error("SyntaxError", <<"Unexpected token in JSON">>)))
  ELSE Out(Cache(r.data.access_token, clientTokenExpiresAt(rq.now, r.data)),
           fetchFlights(cfg, rq, r.data.access_token))

\* getToken from `if (!res.ok)` on
getTokenResume(cfg, c, rq, r) ==
  IF ~Ok(r)
    THEN Out(c, handlerCatch(cfg, rq, Error("Error", <<"Token error: ", r.text>>)))
  ELSE IF ~r.parses
    THEN Out(c, handlerCatch(cfg, rq, Error("FetchError", <<"invalid json response body">>)))
  ELSE Out(Cache(r.data.access_token, tokenExpiresAtOf(rq.now, r.data)),
           fetchFlights(cfg, rq, r.data.access_token))

\* the handlers of GET /api/flights and GET /api/_debug/flights-raw from
\* `await r.text()` / `await r.json()` on, r the upstream API's answer
relayFlights(cfg, c, rq, r) ==
  IF rq.ep = "flights-raw" /\ cfg.variant = 2
    THEN IF JSONparses(r.text)
           THEN Out(c, respond(rq, 200, <<JSONstringify(JSONparse(r.text))>>))
           ELSE Out(c, handlerCatch(cfg, rq, Error("FetchError", <<"invalid json response body">>)))
  ELSE Out(c, respond(rq, r.status, <<r.text>>))

\* a handler that sends its rejected fetch once more before giving up
fetchRejectsRetry(cfg, c, rq) ==
  IF rq.pc = "awaitApiFetch" /\ Len(rq.apiReqs) = 1
    THEN Out(c, [rq EXCEPT !.apiReqs = Append(@, @[1])])
  ELSE IF rq.pc = "awaitTokenFetch" /\ Len(rq.tokenReqs) = 1
    THEN Out(c, [rq EXCEPT !.tokenReqs = Append(@, @[1])])
  ELSE Out(c, handlerCatch(cfg, rq, Error("FetchError", <<"request failed">>)))

\* a fetch, or the download of its body, that rejects (network error) inside
\* the handler's try block
fetchRejects(cfg, c, rq) ==
  Out(c, handlerCatch(cfg, rq, Error("FetchError", <<"request failed">>)))

BoolText(b) == IF b THEN "true" ELSE "false"
ExpiresText(e) ==
  CASE e = <<>> -> "undefined" [] e = <<0>> -> "0" [] e = <<60>> -> "60"
    [] e = <<61>> -> "61" [] OTHER -> "number"

\* getPilotTokenByPassword up to its first await
getPilotTokenByPassword(cfg, rq, username, password) ==
  IF ~assertEnv(cfg.CLIENT_ID)
    THEN handlerCatch(cfg, rq, Error("Error", <<"Missing env var: ", "VAMSYS_CLIENT_ID">>))
  ELSE IF ~assertEnv(cfg.CLIENT_SECRET)
    THEN handlerCatch(cfg, rq, Error("Error", <<"Missing env var: ", "VAMSYS_CLIENT_SECRET">>))
  ELSE [rq EXCEPT !.tokenReqs = Append(@,
            <<"POST", TOKEN_URL, "Authorization: Basic">>
              \o b64(<<cfg.CLIENT_ID, ":", cfg.CLIENT_SECRET>>)
              \o <<"grant_type=password", "username=", username, "password=", password>>),
          !.pc = "awaitTokenFetch"]

\* a login handler that does not test ENABLE_PASSWORD_GRANT
postLoginUnguarded(cfg, c, rq) ==
  IF rq.username = "" \/ rq.password = ""
    THEN Out(c, respond(rq, 400, <<"error", "Missing username/password">>))
  ELSE Out(c, getPilotTokenByPassword(cfg, rq, rq.username, rq.password))

\* the handler of POST /api/login up to its first await
postLogin(cfg, c, rq) ==
  IF ~cfg.ENABLE_PASSWORD_GRANT
    THEN Out(c, respond(rq, 400, <<"error", "Password grant disabled.">>))
  ELSE IF rq.username = "" \/ rq.password = ""
    THEN Out(c, respond(rq, 400, <<"error", "Missing username/password">>))
  ELSE Out(c, getPilotTokenByPassword(cfg, rq, rq.username, rq.password))

\* a login handler that keeps the pilot's token in the token cache
postLoginResumeCaching(cfg, c, rq, r) ==
  IF ~Ok(r)
    THEN Out(c, handlerCatch(cfg, rq,
            Error("Error", <<"Password token failed (", StatusText(r.status), "): ", r.text>>)))
  ELSE IF ~r.parses
    THEN Out(c, handlerCatch(cfg, rq, Error("SyntaxError", <<"Unexpected token in JSON">>)))
  ELSE Out(Cache(r.data.access_token, c.tokenExpiresAt), respond(rq, 200,
            <<"access_token", r.data.access_token, "expires_in", ExpiresText(r.data.expires_in)>>))

\* getPilotTokenByPassword from `const txt = await r.text()` on, and the rest
\* of the login handler
postLoginResume(cfg, c, rq, r) ==
  IF ~Ok(r)
    THEN Out(c, handlerCatch(cfg, rq,
            Error("Error", <<"Password token failed (", StatusText(r.status), "): ", r.text>>)))
  ELSE IF ~r.parses
    THEN Out(c, handlerCatch(cfg, rq, Error("SyntaxError", <<"Unexpected token in JSON">>)))
  ELSE Out(c, respond(rq, 200,
            <<"access_token", r.data.access_token, "expires_in", ExpiresText(r.data.expires_in)>>))

\* app.get("/")
getRoot(cfg, c, rq) ==
  Out(c, respond(rq, 200, <<IF cfg.variant = 1 THEN "OK" ELSE "VA EFB Proxy OK">>))

\* a debug endpoint that shows the configured values themselves
getDebugInfoLeaky(cfg, c, rq) ==
  Out(c, respond(rq, 200,
    <<"apiBase", API_BASE(cfg), "tokenUrl", TOKEN_URL, "corsOrigin", "*",
      "passwordGrantEnabled", BoolText(cfg.ENABLE_PASSWORD_GRANT),
      "clientId", cfg.CLIENT_ID,
      "clientSecret", cfg.CLIENT_SECRET>>))

\* app.get("/api/_debug/info")
getDebugInfo(cfg, c, rq) ==
  Out(c, respond(rq, 200,
    <<"apiBase", API_BASE(cfg), "tokenUrl", TOKEN_URL, "corsOrigin", "*",
      "passwordGrantEnabled", BoolText(cfg.ENABLE_PASSWORD_GRANT),
      "hasClientId", BoolText(cfg.CLIENT_ID # ""),
      "hasClientSecret", BoolText(cfg.CLIENT_SECRET # "")>>))

\* app.post("/api/flights/:flightId/events")
postEvents(cfg, c, rq, flightId, ev) ==
  Out(c, respond(rq, 200,
    <<"ok", "true", "flightId", flightId, "received", ev, "note", "Stored nowhere yet (demo).">>))

\* the forwarding handlers up to their first await
getFlights(cfg, c, rq, t) ==
  IF cfg.variant = 1 THEN getClientToken(cfg, c, rq, t) ELSE getToken(cfg, c, rq, t)

\* the token endpoint has answered the request rq waits for
tokenBody(cfg, c, rq, r) ==
  IF rq.ep = "login" THEN postLoginResume(cfg, c, rq, r)
  ELSE IF cfg.variant = 1 THEN getClientTokenResume(cfg, c, rq, r)
  ELSE getTokenResume(cfg, c, rq, r)

\* Express routes a request to the handler of endpoint ep
accept(ep, username, password) ==
  [NewReq EXCEPT !.ep = ep, !.username = username, !.password = password]

\* ------------------------------------------------------------- the system
Cur == Cache(cachedToken, tokenExpiresAt)
Cfg == Config(variant, CLIENT_ID, CLIENT_SECRET, ENABLE_PASSWORD_GRANT)
TwinCfg == Config(variant, CLIENT_ID, TwinSecret, ENABLE_PASSWORD_GRANT)

InFlight == BagToSet(inflight)
Put(B, e) == B (+) SetToBag({e})
Take(B, e) == B (-) SetToBag({e})

\* a request that has been answered is closed (Close) before the event loop
\* runs the next callback
NoneDone == \A e \in InFlight : e.run.pc # "done"

\* the step's results become the state: o in the run, ot in the twin run
Commit(B, o, ot, w) ==
  /\ cachedToken' = o.cache.cachedToken
  /\ tokenExpiresAt' = o.cache.tokenExpiresAt
  /\ twinCache' = ot.cache
  /\ inflight' = Put(B, [run |-> o.rq, twin |-> ot.rq, wire |-> w])

Frame == UNCHANGED <<variant, CLIENT_ID, CLIENT_SECRET, ENABLE_PASSWORD_GRANT, now>>

Usernames == {"", "pilot"}
Passwords == {"", "hunter2"}
FlightIds == {"VA100"}
Events == {"{}"}

Init ==
  /\ variant \in {1, 2}
  /\ CLIENT_ID \in (IF variant = 1 THEN ClientIds ELSE ClientIds \ {""})
  /\ CLIENT_SECRET \in Secrets
  /\ ENABLE_PASSWORD_GRANT \in (IF variant = 1 THEN BOOLEAN ELSE {FALSE})
  /\ now = Epoch
  /\ cachedToken = (IF variant = 1 THEN "" ELSE "null")
  /\ tokenExpiresAt = Num(0)
  /\ inflight = EmptyBag
  /\ lastTokenResponse = NoSource
  /\ twinCache = Cache(IF variant = 1 THEN "" ELSE "null", Num(0))

\* Date.now() moves on
Tick ==
  /\ NoneDone
  /\ now < Epoch + MaxTicks * TickMs
  /\ now' = now + TickMs
  /\ UNCHANGED <<variant, CLIENT_ID, CLIENT_SECRET, ENABLE_PASSWORD_GRANT,
                 cachedToken, tokenExpiresAt, inflight, lastTokenResponse, twinCache>>

\* a request arrives and its handler runs up to its first await
Arrive(o, ot) ==
  /\ NoneDone
  /\ BagCardinality(inflight) < NumReq
  /\ Commit(inflight, o, ot, NoWire)
  /\ Frame /\ UNCHANGED lastTokenResponse

\* GET /api/flights or GET /api/_debug/flights-raw arrives
GetFlights(ep) ==
  Arrive(getFlights(Cfg, Cur, accept(ep, "", ""), now),
         getFlights(TwinCfg, twinCache, accept(ep, "", ""), now))

\* POST /api/login arrives (first variant)
PostLogin(username, password) ==
  /\ variant = 1
  /\ Arrive(postLogin(Cfg, Cur, accept("login", username, password)),
            postLogin(TwinCfg, twinCache, accept("login", username, password)))

\* GET / arrives
GetRoot ==
  Arrive(getRoot(Cfg, Cur, accept("root", "", "")),
         getRoot(TwinCfg, twinCache, accept("root", "", "")))

\* GET /api/_debug/info arrives (first variant)
GetDebugInfo ==
  /\ variant = 1
  /\ Arrive(getDebugInfo(Cfg, Cur, accept("info", "", "")),
            getDebugInfo(TwinCfg, twinCache, accept("info", "", "")))

\* POST /api/flights/:flightId/events arrives (first variant)
PostEvents(flightId, ev) ==
  /\ variant = 1
  /\ Arrive(postEvents(Cfg, Cur, accept("events", "", ""), flightId, ev),
            postEvents(TwinCfg, twinCache, accept("events", "", ""), flightId, ev))

\* the twin run takes the step the run takes, when it waits at the same await
Same(e) == e.twin.pc = e.run.pc

\* a pending fetch (token endpoint or upstream API) or its body rejects
FetchRejects(e) ==
  /\ NoneDone
  /\ e.run.pc \in {"awaitTokenFetch", "awaitApiFetch"}
  /\ Commit(Take(inflight, e),
            fetchRejects(Cfg, Cur, e.run),
            IF Same(e) THEN fetchRejects(TwinCfg, twinCache, e.twin) ELSE Out(twinCache, e.twin),
            e.wire)
  /\ Frame /\ UNCHANGED lastTokenResponse

\* the token endpoint answers r: `await fetch(TOKEN_URL, ...)` resolves and
\* then the await of its body (the handler touches nothing between the two)
TokenResponds(e, r) ==
  /\ NoneDone
  /\ e.run.pc = "awaitTokenFetch"
  /\ Commit(Take(inflight, e),
            tokenBody(Cfg, Cur, e.run, r),
            IF Same(e) THEN tokenBody(TwinCfg, twinCache, e.twin, r) ELSE Out(twinCache, e.twin),
            [token |-> r, api |-> NoApiResponse])
  /\ lastTokenResponse' =
       IF e.run.ep \in ForwardEndpoints /\ TokenSuccess(r)
         THEN [set |-> TRUE, t0 |-> e.run.now, data |-> r.data]
         ELSE lastTokenResponse
  /\ Frame

\* the upstream API answers r: `await fetch(...)` resolves and then the
\* await of its body
ApiResponds(e, r) ==
  /\ NoneDone
  /\ e.run.pc = "awaitApiFetch"
  /\ Commit(Take(inflight, e),
            relayFlights(Cfg, Cur, e.run, r),
            IF Same(e) THEN relayFlights(TwinCfg, twinCache, e.twin, r) ELSE Out(twinCache, e.twin),
            [token |-> NoTokenResponse, api |-> r])
  /\ Frame /\ UNCHANGED lastTokenResponse

\* the answer to a request has left the process: its req/res objects are gone
Close(e) ==
  /\ e.run.pc = "done"
  /\ inflight' = Take(inflight, e)
  /\ Frame /\ UNCHANGED <<cachedToken, tokenExpiresAt, lastTokenResponse, twinCache>>

Next ==
  \/ Tick
  \/ \E ep \in ForwardEndpoints : GetFlights(ep)
  \/ \E u \in Usernames, p \in Passwords : PostLogin(u, p)
  \/ GetRoot
  \/ GetDebugInfo
  \/ \E f \in FlightIds, ev \in Events : PostEvents(f, ev)
  \/ \E e \in InFlight : FetchRejects(e)
  \/ \E e \in InFlight, r \in TokenResponses : TokenResponds(e, r)
  \/ \E e \in InFlight, r \in ApiResponses : ApiResponds(e, r)
  \/ \E e \in InFlight : Close(e)

Spec == Init /\ [][Next]_vars

\* ------------------------------------------------------------ the claims
\* what a step did to the bag of requests
Arrived(e) ==
  /\ BagCardinality(inflight') = BagCardinality(inflight) + 1
  /\ CopiesIn(e, inflight') > CopiesIn(e, inflight)
\* the step processed the token endpoint's answer to request e (the answer
\* stays in e.wire while the request awaits the upstream API)
TokenProcessed(e) ==
  /\ BagCardinality(inflight') = BagCardinality(inflight)
  /\ CopiesIn(e, inflight') > CopiesIn(e, inflight)
  /\ e.wire.token # NoTokenResponse
  /\ TokenSuccess(e.wire.token) /\ e.run.ep \in ForwardEndpoints => e.run.pc = "awaitApiFetch"
Done(e) == e.run.pc = "done"
Forward(e) == e.run.ep \in ForwardEndpoints
CacheHit == Truthy(cachedToken) /\ Lt(now, tokenExpiresAt)

\* C1 (cache hit): whenever the token getter is called while the cache holds
\* a non-empty token and the current time is strictly before the cached
\* expiry, it returns exactly the cached token, sends no request to the token
\* endpoint and leaves the cached token and the cached expiry unchanged.
C1_CacheHit ==
  [][\A e \in BagToSet(inflight') :
       (Arrived(e) /\ Forward(e) /\ CacheHit) =>
         /\ e.run.gotToken /\ e.run.token = cachedToken
         /\ e.run.tokenReqs = <<>>
         /\ cachedToken' = cachedToken /\ tokenExpiresAt' = tokenExpiresAt]_vars

\* a request was served the cached token while the clock had moved on since
\* the token was cached
C1_Witness ==
  \E e \in InFlight :
    /\ Forward(e) /\ e.run.hit /\ e.run.token = cachedToken /\ e.run.tokenReqs = <<>>
    /\ lastTokenResponse.set /\ now > lastTokenResponse.t0

\* the client id and secret the token request needs are configured (only the
\* first variant checks them)
Credentials == variant = 2 \/ (CLIENT_ID # "" /\ CLIENT_SECRET # "")
ExpiryOf(t0, data) ==
  IF variant = 1 THEN clientTokenExpiresAt(t0, data) ELSE tokenExpiresAtOf(t0, data)

\* the token getter's return after a token request that succeeded: the
\* response's access token, which the cache then holds with an expiry
\* computed from that response and the getter's own `now`
RefreshStores(e) ==
  (TokenProcessed(e) /\ Forward(e) /\ TokenSuccess(e.wire.token)) =>
    /\ e.run.gotToken /\ e.run.token = e.wire.token.data.access_token
    /\ cachedToken' = e.wire.token.data.access_token
    /\ lastTokenResponse'.data = e.wire.token.data
    /\ tokenExpiresAt' = ExpiryOf(lastTokenResponse'.t0, e.wire.token.data)
\* a token is returned from the cache only before its expiry
NeverExpired(e) == (Arrived(e) /\ e.run.hit) => (CacheHit /\ e.run.token = cachedToken)

\* C2 as stated (refresh after expiry): whenever the token getter is called
\* while the cache is empty or the current time is at or after the cached
\* expiry, it sends a request to the token endpoint; if that request succeeds
\* the getter returns the response's access token and the cache holds that
\* token with a newly computed expiry; an expired cached token is never
\* returned.
C2_Original ==
  [][\A e \in BagToSet(inflight') :
       /\ (Arrived(e) /\ Forward(e) /\ ~CacheHit) =>
            (Len(e.run.tokenReqs) = 1 /\ e.run.pc = "awaitTokenFetch")
       /\ RefreshStores(e)
       /\ NeverExpired(e)]_vars

\* C2 as amended: the same, except that in the first variant a call made with
\* the client id or the client secret unset throws before it sends anything:
\* no token request goes out and the handler answers at once.
C2_RefreshAfterExpiry ==
  [][\A e \in BagToSet(inflight') :
       /\ (Arrived(e) /\ Forward(e) /\ ~CacheHit /\ Credentials) =>
            (Len(e.run.tokenReqs) = 1 /\ e.run.pc = "awaitTokenFetch" /\ ~e.run.gotToken)
       /\ (Arrived(e) /\ Forward(e) /\ ~CacheHit /\ ~Credentials) =>
            (e.run.tokenReqs = <<>> /\ Done(e) /\ ~e.run.gotToken)
       /\ RefreshStores(e)
       /\ NeverExpired(e)]_vars

\* a call found a non-empty cached token at or after its expiry and its
\* request to the token endpoint is in flight
C2_Witness ==
  \E e \in InFlight :
    /\ Forward(e) /\ e.run.pc = "awaitTokenFetch" /\ e.run.stale
    /\ Len(e.run.tokenReqs) = 1 /\ ~e.run.gotToken
    /\ Truthy(cachedToken) /\ ~Lt(e.run.now, tokenExpiresAt)

\* C3 (verbatim relay): for every forwarding endpoint, in every variant,
\* whenever token acquisition succeeds and the upstream API answers, the
\* response to the frontend has exactly the upstream status code and exactly
\* the upstream body, for every upstream status. (Stated for the calls whose
\* token response carried an access token.)
C3_VerbatimRelay ==
  \A e \in InFlight :
    (Done(e) /\ Forward(e) /\ e.run.gotToken /\ Truthy(e.run.token)
       /\ e.wire.api # NoApiResponse) =>
      e.run.responses = <<[status |-> e.wire.api.status, body |-> <<e.wire.api.text>>]>>

\* the handling of e failed with no upstream API response to relay: a
\* forwarding request that ended without one, or a login whose token request
\* did not succeed
Login(e) == e.run.ep = "login"
LoginAdmitted(e) ==
  Login(e) /\ ENABLE_PASSWORD_GRANT /\ e.run.username # "" /\ e.run.password # ""
FailedWithoutUpstream(e) ==
  /\ Done(e)
  /\ \/ Forward(e) /\ e.wire.api = NoApiResponse
     \/ LoginAdmitted(e) /\ ~TokenSuccess(e.wire.token)
ErrorResponse(e, status) ==
  /\ Len(e.run.responses) = 1
  /\ e.run.responses[1].status = status
  /\ e.run.responses[1].body[1] = "error"
  /\ Len(e.run.responses[1].body) > 1

C5_CacheFrame ==
  [][(cachedToken' # cachedToken \/ tokenExpiresAt' # tokenExpiresAt) =>
       \E e \in BagToSet(inflight') :
         TokenProcessed(e) /\ Forward(e) /\ TokenSuccess(e.wire.token)]_vars

\* a forwarding request's token request has failed while the cache held a
\* token, which it still holds
C5_Witness ==
  \E e \in InFlight :
    /\ Forward(e) /\ Done(e) /\ e.wire.token.status = 401
    /\ lastTokenResponse.set /\ cachedToken = lastTokenResponse.data.access_token
    /\ Truthy(cachedToken)

\* C6 (no retry, one lookup per request): a request to a forwarding endpoint
\* consults the token cache exactly once, sends at most one request to the
\* token endpoint and at most one to the upstream API, the latter only once
\* it has the token and never when token acquisition failed, and is answered
\* exactly once.
C6_NoRetry ==
  \A e \in InFlight :
    Forward(e) =>
      /\ e.run.lookups = 1
      /\ Len(e.run.tokenReqs) <= 1
      /\ Len(e.run.apiReqs) <= 1
      /\ e.run.hit => e.run.tokenReqs = <<>>
      /\ (Len(e.run.apiReqs) = 1) = e.run.gotToken
      /\ e.run.gotToken => e.run.apiReqs[1][5] = e.run.token
      /\ Len(e.run.responses) = (IF Done(e) THEN 1 ELSE 0)

\* a request that asked the token endpoint once, then the upstream API once,
\* and has been answered
C6_Witness ==
  \E e \in InFlight :
    /\ Forward(e) /\ Done(e) /\ e.wire.api # NoApiResponse
    /\ Len(e.run.tokenReqs) = 1 /\ Len(e.run.apiReqs) = 1 /\ Len(e.run.responses) = 1

Mentions(seq, s) == \E k \in DOMAIN seq : seq[k] = s
\* nothing a run sent to the frontend or to the upstream API holds `secret`
Shielded(rq, secret) ==
  /\ \A k \in DOMAIN rq.responses : ~Mentions(rq.responses[k].body, secret)
  /\ \A k \in DOMAIN rq.apiReqs : ~Mentions(rq.apiReqs[k], secret)

\* C7 (secret shielding): the client secret goes to the token endpoint only
\* and never appears in a response to the frontend; two runs that differ only
\* in the (non-empty) client secret and receive the same upstream answers
\* send the frontend the same responses, GET /api/_debug/info and the error
\* responses included.
C7_SecretShielding ==
  CLIENT_SECRET # "" =>
    \A e \in InFlight :
      /\ Shielded(e.run, CLIENT_SECRET)
      /\ Shielded(e.twin, TwinSecret)
      /\ e.twin.pc = e.run.pc
      /\ e.twin.responses = e.run.responses

\* the run and its twin sent the token endpoint different secrets, got the
\* same 401 back and answered the frontend alike
C7_Witness ==
  /\ CLIENT_SECRET # ""
  /\ \E e \in InFlight :
       /\ Forward(e) /\ Done(e) /\ e.wire.token.status = 401
       /\ Mentions(e.run.tokenReqs[1], CLIENT_SECRET)
       /\ Mentions(e.twin.tokenReqs[1], TwinSecret)
       /\ e.twin.responses = e.run.responses

\* C8 (login guard): POST /api/login is answered 400 and sends nothing to the
\* token endpoint whenever the password grant is disabled (tested first,
\* whatever the body) or the body lacks a non-empty username or password; a
\* password-grant token request goes out only when the grant is enabled and
\* both fields are present.
C8_LoginGuard ==
  \A e \in InFlight :
    Login(e) =>
      /\ ~LoginAdmitted(e) =>
           /\ Done(e) /\ Len(e.run.responses) = 1
           /\ e.run.responses[1].status = 400
           /\ e.run.tokenReqs = <<>>
      /\ ~ENABLE_PASSWORD_GRANT =>
           e.run.responses[1].body = <<"error", "Password grant disabled.">>
      /\ e.run.tokenReqs # <<>> =>
           /\ LoginAdmitted(e) /\ Len(e.run.tokenReqs) = 1
           /\ Mentions(e.run.tokenReqs[1], "grant_type=password")

\* a login with both fields was refused because the grant is disabled
C8_Witness ==
  \E e \in InFlight :
    /\ Login(e) /\ ~ENABLE_PASSWORD_GRANT
    /\ e.run.username # "" /\ e.run.password # ""
    /\ Done(e) /\ e.run.responses[1].status = 400 /\ e.run.tokenReqs = <<>>

\* the lifetime the token endpoint reported, 3600 when it reported none
ReportedLifetime(data) ==
  IF data.expires_in = <<>> THEN DefaultExpiresIn ELSE data.expires_in[1]

\* C9 (60-second safety margin): whenever the token getter returns a token
\* from the cache at time t, t < t0 + (expires_in - 60) * 1000, where t0 is
\* the timestamp taken before the token request that produced the token and
\* expires_in the lifetime the token endpoint reported (3600 when it reported
\* none, in the first variant); so a token whose reported lifetime is 60
\* seconds or less is never served from the cache.
C9_SafetyMargin ==
  [][\A e \in BagToSet(inflight') :
       (Arrived(e) /\ Forward(e) /\ e.run.hit) =>
         /\ lastTokenResponse.set
         /\ lastTokenResponse.data.expires_in # <<>> \/ variant = 1
         /\ ReportedLifetime(lastTokenResponse.data) > SafetyMarginSec
         /\ now < lastTokenResponse.t0
                    + (ReportedLifetime(lastTokenResponse.data) - SafetyMarginSec) * MsPerSec]_vars

\* C10 (pair consistency under concurrency): in every reachable state the
\* cached token and the cached expiry come from the same token response, the
\* one that was processed last (the initial pair before any was processed),
\* however the handlers interleave.
C10_PairConsistency ==
  IF lastTokenResponse.set
    THEN /\ cachedToken = lastTokenResponse.data.access_token
         /\ tokenExpiresAt = ExpiryOf(lastTokenResponse.t0, lastTokenResponse.data)
    ELSE /\ cachedToken = (IF variant = 1 THEN "" ELSE "null")
         /\ tokenExpiresAt = Num(0)

\* a token response was processed while another call, which had found no
\* token in the cache, still waits for its own token response
C10_Witness ==
  /\ lastTokenResponse.set /\ Truthy(cachedToken)
  /\ \E e \in InFlight :
       /\ Forward(e) /\ e.run.pc = "awaitTokenFetch" /\ ~e.run.stale
       /\ e.run.now <= lastTokenResponse.t0

====
